---- MODULE Spec2Model ----
(***************************************************************************)
(* Model of process_icon.py: a command-line script that decodes an image,  *)
(* makes near-white pixels transparent, crops to the bounding box of the   *)
(* remaining opaque pixels and encodes the result.                         *)
(*                                                                         *)
(* An image is a record [w, h, px] with px[y][x] the pixel at column x of  *)
(* row y (numpy's data[y][x]), both counted from 0; a pixel is the tuple   *)
(* <<r, g, b, a>>.  A file is a record with a kind; an image file also has *)
(* a mode ("L", "RGB" or "RGBA") and pixels of 1, 3 or 4 channels.         *)
(*                                                                         *)
(* The imaging library is modelled by its documented behaviour (Pillow     *)
(* 7.1 and later): getbbox() of an RGBA image is the bounding box of the   *)
(* pixels whose alpha is not 0, crop(box) is the exact sub-region, and     *)
(* PNG stores RGBA pixels losslessly.                                      *)
(***************************************************************************)
EXTENDS Integers, Sequences, FiniteSets, TLC

VARIABLES
    argv,             \* the positional arguments (sys.argv[1:])
    fs,               \* the file system: path -> file
    fs0,              \* the file system when the current run started
    run,              \* 1: first invocation, 2: a later invocation
    prev,             \* the output path of the first invocation (run 2)
    pc,               \* position in the script
    stdout,           \* the lines printed by the current run
    calls,            \* the calls of process_icon made by the current run
    exitcode,         \* -1 while running, then the process's exit code
    img,              \* Image.open(input_path).convert("RGBA")
    data,             \* np.array(img), mutated in place
    white_areas,      \* white_areas[x][y], indexed like data.T
    img_transparent,  \* Image.fromarray(data)
    bbox,             \* img_transparent.getbbox()
    img_cropped       \* the image that is saved

vars == <<argv, fs, fs0, run, prev, pc, stdout, calls, exitcode, img, data,
          white_areas, img_transparent, bbox, img_cropped>>

locals == <<img, data, white_areas, img_transparent, bbox, img_cropped>>

-----------------------------------------------------------------------------
(* Bounds of the model *)

\* largest number of pixels (w * h) of an enumerated input image
MaxArea == 6

\* largest number of pixels of an input that comes with an alpha variant
MaxPairArea == 3

\* largest number of positional arguments
MaxArgs == 3

(* Program constants *)

\* the white threshold of line 18
Threshold == 240

\* the number of arguments, script name included, below which usage is shown
MinArgc == 3

-----------------------------------------------------------------------------
(* Paths and files *)

Path(dir, name, ext) == [dir |-> dir, name |-> name, ext |-> ext]

\* the text of a path, as print() shows it
PathStr(p) == p.dir \o p.name \o "." \o p.ext

IconPath    == Path("", "icon", "png")
VariantPath == Path("", "variant", "png")
MissingPath == Path("", "missing", "png")
NotesPath   == Path("", "notes", "txt")
OutPath     == Path("", "out", "png")
OldPath     == Path("", "old", "png")
JpgPath     == Path("", "out", "jpg")
XyzPath     == Path("", "out", "xyz")
RoPath      == Path("ro/", "out", "png")
AgainPath   == Path("", "again", "png")
ExtraPath   == Path("", "extra", "arg")

InPaths  == {IconPath, MissingPath, NotesPath}
OutPaths == {OutPath, OldPath, JpgPath, XyzPath, RoPath}
Paths    == InPaths \cup OutPaths \cup {VariantPath, AgainPath}

Absent   == [kind |-> "absent"]
NotImage == [kind |-> "text"]
Empty    == [kind |-> "empty"]

ImageFile(mode, w, h, px) ==
    [kind |-> "image", mode |-> mode, w |-> w, h |-> h, px |-> px]

NoImage == [w |-> 0, h |-> 0, px |-> <<>>]
None    == <<>>

Grid(w, h, P) == [0 .. h - 1 -> [0 .. w - 1 -> P]]

\* pixel values of the enumerated inputs, by file mode
Palette(mode) ==
    CASE mode = "RGBA" -> {<<241, 255, 242, 255>>, <<240, 255, 255, 0>>, <<0, 0, 0, 255>>}
      [] mode = "RGB"  -> {<<255, 241, 255>>, <<255, 240, 255>>, <<255, 255, 240>>}
      [] mode = "L"    -> {<<241>>, <<240>>, <<0>>}

Modes == {"L", "RGB", "RGBA"}

Dims(maxArea) ==
    {d \in (1 .. maxArea) \X (1 .. maxArea) : d[1] * d[2] <= maxArea}

ImageFiles(maxArea) ==
    UNION {{ImageFile(m, d[1], d[2], px) : px \in Grid(d[1], d[2], Palette(m))} :
             m \in Modes, d \in Dims(maxArea)}

\* a 10x10 white canvas with a 4x4 black square at (3,3)-(6,6)
ScenarioFile ==
    ImageFile("RGB", 10, 10,
        [y \in 0 .. 9 |-> [x \in 0 .. 9 |->
            IF x \in 3 .. 6 /\ y \in 3 .. 6 THEN <<0, 0, 0>> ELSE <<255, 255, 255>>]])

\* the 4x4 icons with a white border of one pixel around any 2x2 content
FramedFiles ==
    {ImageFile("RGBA", 4, 4,
        [y \in 0 .. 3 |-> [x \in 0 .. 3 |->
            IF x \in 1 .. 2 /\ y \in 1 .. 2 THEN inner[y - 1][x - 1]
            ELSE <<255, 255, 255, 255>>]]) :
        inner \in Grid(2, 2, Palette("RGBA"))}

\* alpha values of the variants of an input
VariantAlphas == {0, 128}

\* the 4-channel files with the RGB of f and any alphas
AlphaVariants(f) ==
    {ImageFile("RGBA", f.w, f.h,
        [y \in 0 .. f.h - 1 |-> [x \in 0 .. f.w - 1 |->
            <<f.px[y][x][1], f.px[y][x][2], f.px[y][x][3], al[y][x]>>]]) :
        al \in Grid(f.w, f.h, VariantAlphas)}

-----------------------------------------------------------------------------
(* The imaging and array library *)

\* Image.open(path): the file exists and is a decodable image
CanDecode(f) == f.kind = "image"

\* Image.convert("RGBA") of one pixel
ConvertPixel(mode, p) ==
    CASE mode = "RGBA" -> p
      [] mode = "RGB"  -> <<p[1], p[2], p[3], 255>>
      [] mode = "L"    -> <<p[1], p[1], p[1], 255>>

\* Image.open(path).convert("RGBA")
OpenConvert(f) ==
    [w |-> f.w, h |-> f.h,
     px |-> [y \in 0 .. f.h - 1 |-> [x \in 0 .. f.w - 1 |->
                ConvertPixel(f.mode, f.px[y][x])]]]

\* np.array(img): the array data[y][x] of the image's pixels
Array(im) == im

\* channel c of data.T: indexed [x][y]
ChannelT(d, c) ==
    [x \in 0 .. d.w - 1 |-> [y \in 0 .. d.h - 1 |-> d.px[y][x][c]]]

\* m.T of a 2-d array m[x][y] of h columns and w rows
Transpose(m, w, h) ==
    [y \in 0 .. h - 1 |-> [x \in 0 .. w - 1 |-> m[x][y]]]

\* a variant of WhiteAreas: the comparison is >= instead of >
WhiteAreasInclusive(d) ==
    [x \in 0 .. d.w - 1 |-> [y \in 0 .. d.h - 1 |->
        /\ d.px[y][x][1] >= Threshold
        /\ d.px[y][x][2] >= Threshold
        /\ d.px[y][x][3] >= Threshold]]

\* a variant of WhiteAreas: the channels are joined by | instead of &
WhiteAreasAny(d) ==
    [x \in 0 .. d.w - 1 |-> [y \in 0 .. d.h - 1 |->
        \/ d.px[y][x][1] > Threshold
        \/ d.px[y][x][2] > Threshold
        \/ d.px[y][x][3] > Threshold]]

\* (r > 240) & (g > 240) & (b > 240)
WhiteAreas(d) ==
    LET r == ChannelT(d, 1)
        g == ChannelT(d, 2)
        b == ChannelT(d, 3)
    IN  [x \in 0 .. d.w - 1 |-> [y \in 0 .. d.h - 1 |->
            (r[x][y] > Threshold) /\ (g[x][y] > Threshold) /\ (b[x][y] > Threshold)]]

\* a variant of Where: the two values are swapped
WhereSwapped(cond, w, h) ==
    [y \in 0 .. h - 1 |-> [x \in 0 .. w - 1 |-> IF cond[y][x] THEN 255 ELSE 0]]

\* np.where(cond, 0, 255), elementwise
Where(cond, w, h) ==
    [y \in 0 .. h - 1 |-> [x \in 0 .. w - 1 |-> IF cond[y][x] THEN 0 ELSE 255]]

\* a variant of SetAlpha: np.where(white_areas.T, 0, a.T), which keeps the
\* alpha of the pixels that are not white
SetAlphaKeep(d, white) ==
    [d EXCEPT !.px = [y \in 0 .. d.h - 1 |-> [x \in 0 .. d.w - 1 |->
        [d.px[y][x] EXCEPT ![4] = IF white[x][y] THEN 0 ELSE d.px[y][x][4]]]]]

\* a variant of SetAlpha: data[white_areas.T] = 0, which clears all four
\* channels of a white pixel
SetAlphaClear(d, white) ==
    [d EXCEPT !.px = [y \in 0 .. d.h - 1 |-> [x \in 0 .. d.w - 1 |->
        IF white[x][y] THEN <<0, 0, 0, 0>>
        ELSE [d.px[y][x] EXCEPT ![4] = 255]]]]

\* data[..., 3] = np.where(white_areas.T, 0, 255)
SetAlpha(d, white) ==
    LET alpha == Where(Transpose(white, d.w, d.h), d.w, d.h)
    IN  [d EXCEPT !.px = [y \in 0 .. d.h - 1 |-> [x \in 0 .. d.w - 1 |->
                             [d.px[y][x] EXCEPT ![4] = alpha[y][x]]]]]

\* Image.fromarray(data)
FromArray(d) == d

Min(S) == CHOOSE m \in S : \A n \in S : m <= n
Max(S) == CHOOSE m \in S : \A n \in S : m >= n

\* a variant of GetBBox: right and lower are the last column and row
\* themselves, not one past them
GetBBoxInclusive(im) ==
    LET xs == {x \in 0 .. im.w - 1 : \E y \in 0 .. im.h - 1 : im.px[y][x][4] # 0}
        ys == {y \in 0 .. im.h - 1 : \E x \in 0 .. im.w - 1 : im.px[y][x][4] # 0}
    IN  IF xs = {} THEN None
        ELSE <<Min(xs), Min(ys), Max(xs), Max(ys)>>

\* Image.getbbox() of an RGBA image: None, or (left, upper, right, lower)
\* around the pixels with a nonzero alpha
GetBBox(im) ==
    LET xs == {x \in 0 .. im.w - 1 : \E y \in 0 .. im.h - 1 : im.px[y][x][4] # 0}
        ys == {y \in 0 .. im.h - 1 : \E x \in 0 .. im.w - 1 : im.px[y][x][4] # 0}
    IN  IF xs = {} THEN None
        ELSE <<Min(xs), Min(ys), Max(xs) + 1, Max(ys) + 1>>

\* the truth value of "if bbox:": None is false, a 4-tuple is true
Truthy(box) == box # None

\* a variant of Crop: only the right and lower edges are cut
CropFromOrigin(im, box) ==
    [w |-> box[3], h |-> box[4],
     px |-> [y \in 0 .. box[4] - 1 |-> [x \in 0 .. box[3] - 1 |-> im.px[y][x]]]]

\* Image.crop(box)
Crop(im, box) ==
    [w |-> box[3] - box[1], h |-> box[4] - box[2],
     px |-> [y \in 0 .. box[4] - box[2] - 1 |-> [x \in 0 .. box[3] - box[1] - 1 |->
                im.px[box[2] + y][box[1] + x]]]]

\* Image.save: the format registered for the extension, "" when none is
Format(p) ==
    CASE p.ext = "png" -> "PNG"
      [] p.ext = "jpg" -> "JPEG"
      [] OTHER -> ""

\* the directory of the path can be written to
Writable(p) == p.dir = ""

\* a variant of EncodePNG: the colour of a fully transparent pixel is dropped
EncodePNGDropHidden(im) ==
    ImageFile("RGBA", im.w, im.h,
        [y \in 0 .. im.h - 1 |-> [x \in 0 .. im.w - 1 |->
            IF im.px[y][x][4] = 0 THEN <<0, 0, 0, 0>> ELSE im.px[y][x]]])

\* the PNG encoder: an RGBA image is stored as it is
EncodePNG(im) == ImageFile("RGBA", im.w, im.h, im.px)

\* Image.save(path) of an RGBA image succeeds
CanSave(p) == Format(p) = "PNG" /\ Writable(p)

\* the files a failed save can leave at the path: an unknown extension and
\* an unwritable directory fail before the file is opened; the JPEG encoder
\* rejects RGBA after the file was opened for writing, and the library then
\* removes a file it created (older releases leave it empty)
FailedSave(p, old) ==
    IF Format(p) = "JPEG" /\ Writable(p)
    THEN IF old.kind = "absent" THEN {Absent, Empty} ELSE {Empty}
    ELSE {old}

-----------------------------------------------------------------------------
(* print() *)

ProcessingLine(input_path) == "Processing " \o PathStr(input_path) \o "..."
SavedLine(output_path)     == "Saved processed icon to " \o PathStr(output_path)
UsageLine                  == "Usage: python script.py <input> <output>"

-----------------------------------------------------------------------------
(* The initial states *)

\* sys.argv: the script's name, then the positional arguments
SysArgv(args) == <<"process_icon.py">> \o args

Argvs ==
    {a \in UNION {[1 .. n -> InPaths \cup OutPaths \cup {ExtraPath}] : n \in 0 .. MaxArgs} :
        /\ Len(a) >= 1 => a[1] \in InPaths
        /\ Len(a) >= 2 => a[2] \in OutPaths
        /\ \A i \in 3 .. Len(a) : a[i] = ExtraPath}

Disk(icon, variant) ==
    [p \in Paths |->
        IF p = IconPath THEN icon
        ELSE IF p = VariantPath THEN variant
        ELSE IF p = NotesPath THEN NotImage
        ELSE IF p = OldPath THEN NotImage
        ELSE Absent]

\* a small icon, used where the arguments and the files vary
SmallIcon ==
    ImageFile("RGBA", 2, 1,
        [y \in {0} |-> [x \in 0 .. 1 |->
            IF x = 0 THEN <<0, 0, 0, 255>> ELSE <<255, 255, 255, 255>>]])

InitCommon ==
    /\ fs0 = fs
    /\ run = 1
    /\ prev = OutPath
    /\ pc = "main"
    /\ stdout = <<>>
    /\ calls = <<>>
    /\ exitcode = -1
    /\ img = NoImage
    /\ data = NoImage
    /\ white_areas = <<>>
    /\ img_transparent = NoImage
    /\ bbox = None
    /\ img_cropped = NoImage

\* every command line, on one icon
InitCli ==
    /\ argv \in Argvs
    /\ fs = Disk(SmallIcon, Absent)
    /\ InitCommon

\* every icon, on the command line "icon.png out.png"
InitImages ==
    /\ argv = <<IconPath, OutPath>>
    /\ \E f \in ImageFiles(MaxArea) \cup FramedFiles \cup {ScenarioFile} :
          fs = Disk(f, Absent)
    /\ InitCommon

\* every small icon with every alpha variant of it
InitPair ==
    /\ argv = <<IconPath, OutPath>>
    /\ \E f \in ImageFiles(MaxPairArea) :
          /\ f.mode = "RGBA"
          /\ \E v \in AlphaVariants(f) : fs = Disk(f, v)
    /\ InitCommon

Init == InitCli \/ InitImages \/ InitPair

-----------------------------------------------------------------------------
(* The script, lines 36-40 *)

\* a variant of TooFewArgs: len(sys.argv) <= 3
TooFewArgsOffByOne(args) == Len(SysArgv(args)) <= MinArgc

\* line 37: len(sys.argv) < 3
TooFewArgs(args) == Len(SysArgv(args)) < MinArgc

\* lines 37-38: print the usage and fall off the end of the script
Usage ==
    /\ pc = "main"
    /\ TooFewArgs(argv)
    /\ stdout' = Append(stdout, UsageLine)
    /\ pc' = "exit"
    /\ exitcode' = 0
    /\ UNCHANGED <<argv, fs, fs0, run, prev, calls, locals>>

\* line 40: process_icon(sys.argv[1], sys.argv[2])
Call ==
    /\ pc = "main"
    /\ ~TooFewArgs(argv)
    /\ calls' = Append(calls, <<argv[1], argv[2]>>)
    /\ pc' = "print_processing"
    /\ UNCHANGED <<argv, fs, fs0, run, prev, stdout, exitcode, locals>>

input_path  == argv[1]
output_path == argv[2]

(* process_icon, lines 6-34 *)

\* line 7
PrintProcessing ==
    /\ pc = "print_processing"
    /\ stdout' = Append(stdout, ProcessingLine(input_path))
    /\ pc' = "open"
    /\ UNCHANGED <<argv, fs, fs0, run, prev, calls, exitcode, locals>>

\* lines 8-9, the image decodes
Open ==
    /\ pc = "open"
    /\ CanDecode(fs[input_path])
    /\ img' = OpenConvert(fs[input_path])
    /\ data' = Array(img')
    /\ pc' = "threshold"
    /\ UNCHANGED <<argv, fs, fs0, run, prev, stdout, calls, exitcode, white_areas,
                   img_transparent, bbox, img_cropped>>

\* line 8, Image.open raises: the exception ends the process
OpenFails ==
    /\ pc = "open"
    /\ ~CanDecode(fs[input_path])
    /\ pc' = "raised"
    /\ exitcode' = 1
    /\ UNCHANGED <<argv, fs, fs0, run, prev, stdout, calls, locals>>

\* lines 15-18
FindWhite ==
    /\ pc = "threshold"
    /\ white_areas' = WhiteAreas(data)
    /\ pc' = "alpha"
    /\ UNCHANGED <<argv, fs, fs0, run, prev, stdout, calls, exitcode, img, data,
                   img_transparent, bbox, img_cropped>>

\* lines 21-23
MakeTransparent ==
    /\ pc = "alpha"
    /\ data' = SetAlpha(data, white_areas)
    /\ img_transparent' = FromArray(data')
    /\ pc' = "bbox"
    /\ UNCHANGED <<argv, fs, fs0, run, prev, stdout, calls, exitcode, img, white_areas,
                   bbox, img_cropped>>

\* line 26
FindBBox ==
    /\ pc = "bbox"
    /\ bbox' = GetBBox(img_transparent)
    /\ pc' = "crop"
    /\ UNCHANGED <<argv, fs, fs0, run, prev, stdout, calls, exitcode, img, data,
                   white_areas, img_transparent, img_cropped>>

\* lines 27-30
CropToContent ==
    /\ pc = "crop"
    /\ img_cropped' = IF Truthy(bbox) THEN Crop(img_transparent, bbox)
                                      ELSE img_transparent
    /\ pc' = "save"
    /\ UNCHANGED <<argv, fs, fs0, run, prev, stdout, calls, exitcode, img, data,
                   white_areas, img_transparent, bbox>>

\* line 33, the image is encoded and written
Save ==
    /\ pc = "save"
    /\ CanSave(output_path)
    /\ fs' = [fs EXCEPT ![output_path] = EncodePNG(img_cropped)]
    /\ pc' = "print_saved"
    /\ UNCHANGED <<argv, fs0, run, prev, stdout, calls, exitcode, locals>>

\* a variant of SaveFails: the exception is caught and the function goes on
SaveFailsCaught ==
    /\ pc = "save"
    /\ ~CanSave(output_path)
    /\ \E left \in FailedSave(output_path, fs[output_path]) :
          fs' = [fs EXCEPT ![output_path] = left]
    /\ pc' = "print_saved"
    /\ UNCHANGED <<argv, fs0, run, prev, stdout, calls, exitcode, locals>>

\* line 33, Image.save raises: the exception ends the process
SaveFails ==
    /\ pc = "save"
    /\ ~CanSave(output_path)
    /\ \E left \in FailedSave(output_path, fs[output_path]) :
          fs' = [fs EXCEPT ![output_path] = left]
    /\ pc' = "raised"
    /\ exitcode' = 1
    /\ UNCHANGED <<argv, fs0, run, prev, stdout, calls, locals>>

\* line 34, then the return to line 40 and the end of the script
PrintSaved ==
    /\ pc = "print_saved"
    /\ stdout' = Append(stdout, SavedLine(output_path))
    /\ pc' = "exit"
    /\ exitcode' = 0
    /\ UNCHANGED <<argv, fs, fs0, run, prev, calls, locals>>

(* Later invocations of the script *)

Succeeded == pc = "exit" /\ exitcode = 0 /\ ~TooFewArgs(argv)

Invoke(args) ==
    /\ argv' = args
    /\ prev' = output_path
    /\ fs0' = fs
    /\ run' = 2
    /\ pc' = "main"
    /\ stdout' = <<>>
    /\ calls' = <<>>
    /\ exitcode' = -1
    /\ img' = NoImage
    /\ data' = NoImage
    /\ white_areas' = <<>>
    /\ img_transparent' = NoImage
    /\ bbox' = None
    /\ img_cropped' = NoImage
    /\ UNCHANGED fs

\* the script is run again, on the file it wrote
RunOnOutput ==
    /\ run = 1
    /\ Succeeded
    /\ Invoke(<<output_path, AgainPath>>)

\* the script is run again, on the alpha variant of its input
RunOnVariant ==
    /\ run = 1
    /\ Succeeded
    /\ CanDecode(fs[VariantPath])
    /\ Invoke(<<VariantPath, AgainPath>>)

Next ==
    \/ Usage
    \/ Call
    \/ PrintProcessing
    \/ Open
    \/ OpenFails
    \/ FindWhite
    \/ MakeTransparent
    \/ FindBBox
    \/ CropToContent
    \/ Save
    \/ SaveFails
    \/ PrintSaved
    \/ RunOnOutput
    \/ RunOnVariant

Spec == Init /\ [][Next]_vars

-----------------------------------------------------------------------------
(* Vocabulary of the properties *)

\* the decoded 4-channel input of the current run
Input == OpenConvert(fs0[input_path])

\* the file the current run wrote
Output == fs[output_path]

\* red, green and blue are all above 240
Background(p) == p[1] > 240 /\ p[2] > 240 /\ p[3] > 240

Positions(im) == (0 .. im.w - 1) \X (0 .. im.h - 1)

\* the pixel of im at position q = <<x, y>>
At(im, q) == im.px[q[2]][q[1]]

\* the region of the input that the output shows
Region == IF bbox = None THEN <<0, 0, Input.w, Input.h>> ELSE bbox

RegionPositions == (Region[1] .. Region[3] - 1) \X (Region[2] .. Region[4] - 1)

\* the output position of the input position q
Shift(q) == <<q[1] - Region[1], q[2] - Region[2]>>

SameSize(a, b) == a.w = b.w /\ a.h = b.h

\* box is the smallest rectangle around the pixels of im with a nonzero alpha
IsMinimalBox(box, im) ==
    /\ 0 <= box[1] /\ box[1] < box[3] /\ box[3] <= im.w
    /\ 0 <= box[2] /\ box[2] < box[4] /\ box[4] <= im.h
    /\ \A q \in Positions(im) :
          At(im, q)[4] # 0 => /\ box[1] <= q[1] /\ q[1] < box[3]
                              /\ box[2] <= q[2] /\ q[2] < box[4]
    /\ \E q \in Positions(im) : At(im, q)[4] # 0 /\ q[1] = box[1]
    /\ \E q \in Positions(im) : At(im, q)[4] # 0 /\ q[1] = box[3] - 1
    /\ \E q \in Positions(im) : At(im, q)[4] # 0 /\ q[2] = box[2]
    /\ \E q \in Positions(im) : At(im, q)[4] # 0 /\ q[2] = box[4] - 1

-----------------------------------------------------------------------------
(* Properties *)

\* C1: after a successful run, every input position inside the cropped
\* region has output alpha 0 when its red, green and blue are all above 240
\* and 255 otherwise, and no output alpha is anything but 0 or 255.
C1_AlphaIsThreshold ==
    Succeeded =>
        /\ \A q \in RegionPositions :
              At(Output, Shift(q))[4] = IF Background(At(Input, q)) THEN 0 ELSE 255
        /\ \A q \in Positions(Output) : At(Output, q)[4] \in {0, 255}

C1_Witness ==
    /\ Succeeded
    /\ \E q \in RegionPositions :
          /\ At(Input, q)[1] = 240
          /\ At(Input, q)[4] = 0
          /\ At(Output, Shift(q))[4] = 255
    /\ \E q \in RegionPositions :
          /\ Background(At(Input, q))
          /\ At(Output, Shift(q))[4] = 0

\* C2: when the alpha-modified image has a pixel with nonzero alpha, the
\* output is exactly the sub-region of it inside the smallest rectangle
\* around those pixels; the 10x10 white canvas with a black 4x4 square at
\* (3,3)-(6,6) gives a 4x4 opaque black image.
C2_TightCrop ==
    (Succeeded /\ \E q \in Positions(img_transparent) : At(img_transparent, q)[4] # 0) =>
        /\ bbox # None
        /\ IsMinimalBox(bbox, img_transparent)
        /\ Output.w = bbox[3] - bbox[1]
        /\ Output.h = bbox[4] - bbox[2]
        /\ \A q \in Positions(Output) :
              At(Output, q) = At(img_transparent, <<bbox[1] + q[1], bbox[2] + q[2]>>)
        /\ fs0[input_path] = ScenarioFile =>
              Output = ImageFile("RGBA", 4, 4,
                          [y \in 0 .. 3 |-> [x \in 0 .. 3 |-> <<0, 0, 0, 255>>]])

C2_Witness ==
    /\ Succeeded
    /\ fs0[input_path] = ScenarioFile
    /\ bbox = <<3, 3, 7, 7>>
    /\ Output.w = 4 /\ Output.h = 4

\* C3: after a successful run the first and last row and the first and last
\* column of the output each hold a pixel of alpha 255, unless the output
\* has no opaque pixel, and then it has the input's dimensions.
C3_OutputIsTight ==
    Succeeded =>
        IF \E q \in Positions(Output) : At(Output, q)[4] = 255
        THEN /\ \E q \in Positions(Output) : At(Output, q)[4] = 255 /\ q[1] = 0
             /\ \E q \in Positions(Output) : At(Output, q)[4] = 255 /\ q[1] = Output.w - 1
             /\ \E q \in Positions(Output) : At(Output, q)[4] = 255 /\ q[2] = 0
             /\ \E q \in Positions(Output) : At(Output, q)[4] = 255 /\ q[2] = Output.h - 1
        ELSE SameSize(Output, Input)

C3_Witness ==
    /\ Succeeded
    /\ bbox # None
    /\ bbox[1] > 0 /\ bbox[2] > 0
    /\ Output.w < Input.w
    /\ Output.h < Input.h
    /\ \E q \in Positions(Output) : At(Output, q)[4] = 0

\* C4: when every input pixel is background, there is no bounding box and
\* the output has the input's size with every alpha 0.
C4_AllBackground ==
    (Succeeded /\ \A q \in Positions(Input) : Background(At(Input, q))) =>
        /\ bbox = None
        /\ SameSize(Output, Input)
        /\ \A q \in Positions(Output) : At(Output, q)[4] = 0

C4_Witness ==
    /\ Succeeded
    /\ \A q \in Positions(Input) : Background(At(Input, q))
    /\ Input.w = 2 /\ Input.h = 3
    /\ Output.w = 2 /\ Output.h = 3

\* C5: when no input pixel is background, the bounding box is the whole
\* image and the output has the input's size with every alpha 255.
C5_NoBackground ==
    (Succeeded /\ \A q \in Positions(Input) : ~Background(At(Input, q))) =>
        /\ bbox = <<0, 0, Input.w, Input.h>>
        /\ SameSize(Output, Input)
        /\ \A q \in Positions(Output) : At(Output, q)[4] = 255

C5_Witness ==
    /\ Succeeded
    /\ \A q \in Positions(Input) : ~Background(At(Input, q))
    /\ \E q \in Positions(Input) : At(Input, q)[2] = 240 /\ At(Input, q)[1] = 255
    /\ Input.w = 3 /\ Input.h = 2
    /\ Output.w = 3 /\ Output.h = 2

\* C6: a run on the file a previous run wrote writes a file identical to it
\* in size and in all four channels of every pixel, and its bounding box is
\* not larger than the previous output.
C6_Idempotent ==
    (run = 2 /\ input_path = prev /\ Succeeded) =>
        /\ Output = fs[prev]
        /\ bbox # None => /\ bbox[3] - bbox[1] <= fs[prev].w
                          /\ bbox[4] - bbox[2] <= fs[prev].h

C6_Witness ==
    /\ run = 2
    /\ input_path = prev
    /\ Succeeded
    /\ \E q \in Positions(Output) : At(Output, q)[4] = 0
    /\ \E q \in Positions(Output) : At(Output, q)[4] = 255

\* C7: two 4-channel inputs of the same size that agree on red, green and
\* blue everywhere and differ in alpha give identical outputs.
C7_AlphaIgnored ==
    (/\ run = 2
     /\ input_path = VariantPath
     /\ Succeeded
     /\ SameSize(fs[IconPath], fs[VariantPath])
     /\ \A q \in Positions(fs[IconPath]) : \A c \in 1 .. 3 :
           At(fs[IconPath], q)[c] = At(fs[VariantPath], q)[c]) =>
        Output = fs[prev]

C7_Witness ==
    /\ run = 2
    /\ input_path = VariantPath
    /\ Succeeded
    /\ \E q \in Positions(fs[IconPath]) :
          /\ At(fs[IconPath], q)[4] = 255
          /\ At(fs[VariantPath], q)[4] = 0
          /\ ~Background(At(fs[VariantPath], q))
          /\ q \in RegionPositions
          /\ At(Output, Shift(q))[4] = 255
    /\ Output = fs[prev]

\* C8: with fewer than two positional arguments the usage line is the only
\* effect (process_icon is not called, nothing is read, written or printed
\* besides it) and the exit code is 0; with two or more, process_icon is
\* called exactly once, with the first two.
C8_CommandLine ==
    /\ Len(argv) < 2 =>
          /\ calls = <<>>
          /\ fs = fs0
          /\ img = NoImage
          /\ pc \in {"main", "exit"}
          /\ pc = "main" => stdout = <<>> /\ exitcode = -1
          /\ pc = "exit" => stdout = <<UsageLine>> /\ exitcode = 0
    /\ (Len(argv) >= 2 /\ pc # "main") =>
          /\ calls = << <<argv[1], argv[2]>> >>
          /\ UsageLine \notin {stdout[i] : i \in 1 .. Len(stdout)}

C8_Witness ==
    /\ Len(argv) = 1
    /\ pc = "exit"
    /\ exitcode = 0
    /\ stdout = <<UsageLine>>

\* C9: a failed decode ends the run in an error state with nothing written
\* and only the "Processing" line printed; the "Saved" line is printed only
\* once the file has been encoded; a failure is never followed by a further
\* step; a successful run prints exactly the two lines, in order.
C9_FailuresAreFatal ==
    /\ (pc = "raised" /\ ~CanDecode(fs0[input_path])) =>
          /\ fs = fs0
          /\ stdout = <<ProcessingLine(input_path)>>
    /\ pc = "raised" =>
          /\ exitcode = 1
          /\ stdout = <<ProcessingLine(input_path)>>
          /\ ~ENABLED Next
    /\ pc \in {"threshold", "alpha", "bbox", "crop", "save", "print_saved"} =>
          CanDecode(fs0[input_path])
    /\ (Len(argv) >= 2 /\ \E i \in 1 .. Len(stdout) : stdout[i] = SavedLine(output_path)) =>
          /\ CanDecode(fs0[input_path])
          /\ Output = EncodePNG(img_cropped)
    /\ Succeeded =>
          stdout = <<ProcessingLine(input_path), SavedLine(output_path)>>

C9_Witness ==
    /\ pc = "raised"
    /\ fs0[input_path] = NotImage
    /\ stdout = <<"Processing notes.txt...">>
    /\ exitcode = 1

\* C10: every output pixel has the red, green and blue of the input pixel it
\* comes from, transparent pixels included.
C10_ColourKept ==
    Succeeded =>
        \A q \in RegionPositions : \A c \in 1 .. 3 :
            At(Output, Shift(q))[c] = At(Input, q)[c]

C10_Witness ==
    /\ Succeeded
    /\ \E q \in RegionPositions :
          /\ At(Output, Shift(q)) = <<241, 255, 242, 0>>
          /\ At(Input, q) = <<241, 255, 242, 255>>
    /\ Output.w < Input.w

====
